---- MODULE Spec2Model ----
(***************************************************************************)
(* Escape the Ice: grid generation, randomized ice spreading, the safe     *)
(* shortest-path search, the interval calibration loop and the Streamlit   *)
(* session (moves, win, game over, restart) of src/app.py.                 *)
(*                                                                         *)
(* Cells are addressed as in the source, 0-based: a grid is a function     *)
(* [0..R-1 -> [0..C-1 -> {".", "#", "I"}]].                                *)
(***************************************************************************)
EXTENDS Integers, Sequences, FiniteSets, TLC

VARIABLES
    grid,           \* st.session_state.grid / the grid argument
    max_steps,      \* generate_balanced_ice's max_steps argument
    interval,       \* generate_balanced_ice's local interval
    ice_time,       \* compute_ice_times' matrix, then st.session_state.ice_time
    q,              \* compute_ice_times' work queue of <<r, c, t>>
    shortest,       \* generate_balanced_ice's local shortest
    pc,             \* position in the script
    pos_r, pos_c,   \* st.session_state.pos_r / pos_c
    current_steps,  \* st.session_state.current_steps
    game_over, won  \* st.session_state.game_over / won

vars == <<grid, max_steps, interval, ice_time, q, shortest, pc,
          pos_r, pos_c, current_steps, game_over, won>>

----------------------------------------------------------------------------
(* Values *)

\* math.inf: larger than every finite freeze time and step count of the model
Inf == 1000000

\* Python's None as returned by find_shortest_safe_steps (step counts are >= 0)
None == -1

\* a session key that is not (yet) in st.session_state
Unset == -2

Rows(g) == Cardinality(DOMAIN g)
Cols(g) == Cardinality(DOMAIN g[0])

\* directions = [(-1,0),(1,0),(0,-1),(0,1)]
directions == << <<-1, 0>>, <<1, 0>>, <<0, -1>>, <<0, 1>> >>

InBounds(g, r, c) == 0 <= r /\ r < Rows(g) /\ 0 <= c /\ c < Cols(g)

Min(a, b) == IF a <= b THEN a ELSE b

----------------------------------------------------------------------------
(* generate_grid *)

\* the literal base_grid: 10 x 10, walls at (0,8), (4,0), (9,5)
base_grid ==
    [r \in 0..9 |-> [c \in 0..9 |->
        IF <<r, c>> \in {<<0, 8>>, <<4, 0>>, <<9, 5>>} THEN "#" ELSE "."]]

\* random.randint(3, 5)
NumIceChoices == 3..5

\* possible_positions without the exclusion of the start and exit cells
possible_positions_corners(g) ==
    {p \in (0..Rows(g)-1) \X ((Cols(g) \div 2)..(Cols(g)-1)) :
        /\ g[p[1]][p[2]] = "."
        /\ ~(p[1] < 3 /\ p[2] < 3)}

\* possible_positions ranging over every column, range(C) for range(C//2, C)
possible_positions_all_columns(g) ==
    {p \in (0..Rows(g)-1) \X (0..(Cols(g)-1)) :
        /\ g[p[1]][p[2]] = "."
        /\ p \notin {<<0, 0>>, <<0, Cols(g)-1>>}
        /\ ~(p[1] < 3 /\ p[2] < 3)}

\* the comprehension building possible_positions
possible_positions(g) ==
    {p \in (0..Rows(g)-1) \X ((Cols(g) \div 2)..(Cols(g)-1)) :
        /\ g[p[1]][p[2]] = "."
        /\ p \notin {<<0, 0>>, <<0, Cols(g)-1>>}
        /\ ~(p[1] < 3 /\ p[2] < 3)}

----------------------------------------------------------------------------
(* compute_ice_times *)

\* ice_time = [[math.inf]*C for _ in range(R)], then 0 on every 'I' cell
InitialIceTimes(g) ==
    [r \in 0..Rows(g)-1 |-> [c \in 0..Cols(g)-1 |->
        IF g[r][c] = "I" THEN 0 ELSE Inf]]

\* SeedQueue with the seeds queued at time 1 for time 0
SeedQueueAtOne(g) ==
    SelectSeq([k \in 1..(Rows(g) * Cols(g)) |->
                  <<(k - 1) \div Cols(g), (k - 1) % Cols(g), 1>>],
              LAMBDA e : g[e[1]][e[2]] = "I")

\* the initial queue: (r, c, 0) for every 'I' cell, in row-major order
SeedQueue(g) ==
    SelectSeq([k \in 1..(Rows(g) * Cols(g)) |->
                  <<(k - 1) \div Cols(g), (k - 1) % Cols(g), 0>>],
              LAMBDA e : g[e[1]][e[2]] = "I")

\* CanFreeze with >= for >: a neighbour is updated again on a tie
CanFreezeOnTie(g, ice, nr, nc, t, spread_interval) ==
    /\ InBounds(g, nr, nc)
    /\ g[nr][nc] # "#"
    /\ ice[nr][nc] >= t + spread_interval

\* CanFreeze without the wall test
CanFreezeWalls(g, ice, nr, nc, t, spread_interval) ==
    /\ InBounds(g, nr, nc)
    /\ ice[nr][nc] > t + spread_interval

\* the test guarding an update of neighbour (nr, nc) from an entry of time t
CanFreeze(g, ice, nr, nc, t, spread_interval) ==
    /\ InBounds(g, nr, nc)
    /\ g[nr][nc] # "#"
    /\ ice[nr][nc] > t + spread_interval

\* Relax writing spread_interval for t + spread_interval
RelaxForgetsTime(g, st, r, c, t, d, spread_interval) ==
    LET nr == r + d[1]
        nc == c + d[2]
    IN  IF CanFreeze(g, st.ice, nr, nc, t, spread_interval)
        THEN [ice |-> [st.ice EXCEPT ![nr][nc] = spread_interval],
              q   |-> Append(st.q, <<nr, nc, spread_interval>>)]
        ELSE st

\* one iteration of "for dr, dc in dirs[:3]" on the pair st = [ice, q]
Relax(g, st, r, c, t, d, spread_interval) ==
    LET nr == r + d[1]
        nc == c + d[2]
    IN  IF CanFreeze(g, st.ice, nr, nc, t, spread_interval)
        THEN [ice |-> [st.ice EXCEPT ![nr][nc] = t + spread_interval],
              q   |-> Append(st.q, <<nr, nc, t + spread_interval>>)]
        ELSE st

\* the whole for loop over the attempted directions dirs, in their order
RECURSIVE RelaxAll(_, _, _, _, _, _, _)
RelaxAll(g, st, r, c, t, dirs, spread_interval) ==
    IF dirs = <<>> THEN st
    ELSE RelaxAll(g, Relax(g, st, r, c, t, Head(dirs), spread_interval),
                  r, c, t, Tail(dirs), spread_interval)

\* NumDirChoices as random.randint(3, 4)
NumDirChoicesUpToFour == 3..4

\* random.randint(3, 3)
NumDirChoices == 3..3

\* every outcome of random.shuffle(dirs) followed by dirs[:random.randint(3,3)]
Shuffles ==
    LET Perms == {p \in [1..4 -> 1..4] : \A i, j \in 1..4 : i # j => p[i] # p[j]}
    IN  {[i \in 1..n |-> directions[p[i]]] : p \in Perms, n \in NumDirChoices}

----------------------------------------------------------------------------
(* find_shortest_safe_steps *)

\* CanStep with <= for <: a cell may be entered as it freezes
CanStepOnFreeze(g, ice, visited, nr, nc, steps) ==
    /\ InBounds(g, nr, nc)
    /\ <<nr, nc>> \notin visited
    /\ g[nr][nc] # "#"
    /\ steps + 1 <= ice[nr][nc]

\* CanStep one step early, as if the ice were compared with the step after
CanStepOneEarly(g, ice, visited, nr, nc, steps) ==
    /\ InBounds(g, nr, nc)
    /\ <<nr, nc>> \notin visited
    /\ g[nr][nc] # "#"
    /\ steps + 2 < ice[nr][nc]

\* CanStep without the wall test
CanStepThroughWalls(g, ice, visited, nr, nc, steps) ==
    /\ InBounds(g, nr, nc)
    /\ <<nr, nc>> \notin visited
    /\ steps + 1 < ice[nr][nc]

\* the test guarding a visit of neighbour (nr, nc) from a cell reached in steps
CanStep(g, ice, visited, nr, nc, steps) ==
    /\ InBounds(g, nr, nc)
    /\ <<nr, nc>> \notin visited
    /\ g[nr][nc] # "#"
    /\ steps + 1 < ice[nr][nc]

\* the inner for loop over the four directions, on st = [visited, q, found]
RECURSIVE Visit(_, _, _, _, _, _, _)
Visit(g, ice, st, r, c, steps, k) ==
    IF k > 4 THEN st
    ELSE LET nr == r + directions[k][1]
             nc == c + directions[k][2]
             nx == IF CanStep(g, ice, st.visited, nr, nc, steps)
                   THEN [st EXCEPT !.visited = @ \cup {<<nr, nc>>},
                                   !.q = Append(@, <<nr, nc, steps + 1>>)]
                   ELSE st
         IN  Visit(g, ice, nx, r, c, steps, k + 1)

\* one iteration of "while q": pop, return at the exit, else visit the
\* neighbours; st.found is Unset until the function has returned, then the
\* returned value (a step count, or None once the queue is empty)
SearchStep(g, ice, st) ==
    IF st.found # Unset THEN st
    ELSE IF st.q = <<>> THEN [st EXCEPT !.found = None]
    ELSE LET e == Head(st.q)
         IN  IF <<e[1], e[2]>> = <<0, Cols(g) - 1>>
             THEN [st EXCEPT !.found = e[3]]
             ELSE Visit(g, ice, [st EXCEPT !.q = Tail(@)], e[1], e[2], e[3], 1)

\* n iterations of the while loop: the first half, then the second half on
\* its result (mid ranges over a one-element set so that the result of the
\* first half is a value before the second half starts)
RECURSIVE SearchLoop(_, _, _, _)
SearchLoop(g, ice, st, n) ==
    IF n = 0 THEN st
    ELSE IF n = 1 THEN SearchStep(g, ice, st)
    ELSE CHOOSE after \in
            {SearchLoop(g, ice, mid, n - (n \div 2)) :
                mid \in {SearchLoop(g, ice, st, n \div 2)}} : TRUE

\* lines 74-90.  A cell is queued only when it is first marked visited, so the
\* queue holds at most R*C entries over the whole run and the loop has
\* returned after at most R*C + 1 iterations.
find_shortest_safe_steps(g, ice) ==
    SearchLoop(g, ice,
               [visited |-> {<<0, 0>>}, q |-> <<<<0, 0, 0>>>>, found |-> Unset],
               Rows(g) * Cols(g) + 1).found

----------------------------------------------------------------------------
(* Bounds of the model *)

\* small input grids have at most this many 'I' cells
MaxSeeds == 1

\* presses are explored while current_steps is below this
MaxPlaySteps == 4

\* presses on the 10 x 10 grid are explored while current_steps is below this
\* (the exit is 11 moves from the start)
MaxAppSteps == 11

\* the largest finite freeze time of the matrices given to the search alone
MaxIce == 4

\* the number of cells of PoolCells that random.shuffle may bring to the front
MaxPool == 9

\* the largest spread_interval given to compute_ice_times alone
MaxInterval == 2

\* cells the bounded shuffle of generate_grid draws its prefix from; some are
\* not eligible (the exit, a wall, the left half), so the filter is exercised
PoolCells ==
    << <<1, 9>>, <<0, 9>>, <<4, 5>>, <<2, 8>>, <<9, 5>>, <<8, 7>>,
       <<0, 5>>, <<3, 4>>, <<6, 9>>, <<5, 6>>, <<0, 0>> >>

Pool == {PoolCells[i] : i \in 1..Min(MaxPool, Len(PoolCells))}

\* the cells of the small input grids: 3 x 3
SmallCells == (0..2) \X (0..2)

\* the wall placements of the small input grids: row 0 open, row 0 blocked
\* (a detour of 4 moves), row 0 and the centre blocked (a detour of 6 moves)
WallPatterns == {{}, {<<0, 1>>}, {<<0, 1>>, <<1, 1>>}}

\* small input grids: a wall pattern and at most MaxSeeds seeds on any of the
\* other cells, the start and the exit included
SmallGrids ==
    {[r \in 0..2 |-> [c \in 0..2 |->
        IF <<r, c>> \in W THEN "#" ELSE IF <<r, c>> \in S THEN "I" ELSE "."]] :
        W \in WallPatterns,
        S \in {T \in SUBSET SmallCells : Cardinality(T) <= MaxSeeds}}

\* the step budget tried on the small grids
SmallBudgets == {5}

\* inputs of find_shortest_safe_steps alone: 2 x 3 grids with at most one wall
\* off the start, and any matrix of freeze times in 0..MaxIce or infinity
SearchGrids ==
    {[r \in 0..1 |-> [c \in 0..2 |-> IF <<r, c>> \in W THEN "#" ELSE "."]] :
        W \in {{}, {<<0, 1>>}, {<<1, 1>>}, {<<0, 2>>}}}

SearchIceTimes ==
    {m \in [0..1 -> [0..2 -> (0..MaxIce) \cup {Inf}]] : m[0][0] \in {0, Inf}}

\* the draws explored on the 10 x 10 grid: the shuffle that leaves dirs as is
BoundedShuffles == {[i \in 1..n |-> directions[i]] : n \in NumDirChoices}

----------------------------------------------------------------------------
(* The script *)

\* the default max_steps of generate_balanced_ice
DefaultMaxSteps == 15

\* the first interval tried
FirstInterval == 2

\* lines 9-39 and the call of generate_balanced_ice: choose num_ice, shuffle,
\* mark the first min(num_ice, len(possible_positions)) positions 'I'
GenerateGrid ==
    /\ pc = "generate"
    /\ \E num_ice \in NumIceChoices :
       \E seeds \in SUBSET (possible_positions(base_grid) \cap Pool) :
          /\ Cardinality(seeds) =
                Min(num_ice, Cardinality(possible_positions(base_grid)))
          /\ grid' = [r \in 0..Rows(base_grid)-1 |-> [c \in 0..Cols(base_grid)-1 |->
                         IF <<r, c>> \in seeds THEN "I" ELSE base_grid[r][c]]]
    /\ max_steps' = DefaultMaxSteps
    /\ interval' = FirstInterval
    /\ pc' = "calibrate"
    /\ UNCHANGED <<ice_time, q, shortest, pos_r, pos_c, current_steps, game_over, won>>

\* ComputeInit keeping the matrix of the previous attempt, where there is one
ComputeInitCarryOver ==
    /\ pc = "calibrate"
    /\ ice_time' = IF ice_time = <<>> THEN InitialIceTimes(grid) ELSE ice_time
    /\ q' = SeedQueue(grid)
    /\ pc' = "spread"
    /\ UNCHANGED <<grid, max_steps, interval, shortest,
                   pos_r, pos_c, current_steps, game_over, won>>

\* lines 45-53: a fresh matrix and the seeds queued
ComputeInit ==
    /\ pc = "calibrate"
    /\ ice_time' = InitialIceTimes(grid)
    /\ q' = SeedQueue(grid)
    /\ pc' = "spread"
    /\ UNCHANGED <<grid, max_steps, interval, shortest,
                   pos_r, pos_c, current_steps, game_over, won>>

\* ExpandWith reading the front entry without q.popleft()
ExpandWithoutPop(draws) ==
    /\ pc = "spread"
    /\ q # <<>>
    /\ \E dirs \in draws :
          LET e  == Head(q)
              st == RelaxAll(grid, [ice |-> ice_time, q |-> q],
                             e[1], e[2], e[3], dirs, interval)
          IN  /\ ice_time' = st.ice
              /\ q' = st.q
    /\ UNCHANGED <<grid, max_steps, interval, shortest, pc,
                   pos_r, pos_c, current_steps, game_over, won>>

\* lines 54-64: one iteration of "while q" under a draw from draws
ExpandWith(draws) ==
    /\ pc = "spread"
    /\ q # <<>>
    /\ \E dirs \in draws :
          LET e  == Head(q)
              st == RelaxAll(grid, [ice |-> ice_time, q |-> Tail(q)],
                             e[1], e[2], e[3], dirs, interval)
          IN  /\ ice_time' = st.ice
              /\ q' = st.q
    /\ UNCHANGED <<grid, max_steps, interval, shortest, pc,
                   pos_r, pos_c, current_steps, game_over, won>>

Expand == ExpandWith(Shuffles)

\* line 65: "while q" has ended, compute_ice_times returns ice_time
ReturnIceTimes ==
    /\ pc = "spread"
    /\ q = <<>>
    /\ pc' = "computed"
    /\ UNCHANGED <<grid, max_steps, interval, ice_time, q, shortest,
                   pos_r, pos_c, current_steps, game_over, won>>

ExpandBounded == ExpandWith(BoundedShuffles)

\* lines 65 and 99: compute_ice_times returns, find_shortest_safe_steps runs
FindShortest ==
    /\ pc = "spread"
    /\ q = <<>>
    /\ shortest' = find_shortest_safe_steps(grid, ice_time)
    /\ pc' = "decide"
    /\ UNCHANGED <<grid, max_steps, interval, ice_time, q,
                   pos_r, pos_c, current_steps, game_over, won>>

\* Accepts with > for <
AcceptsAbove(s, budget) == s # None /\ s > budget

\* Accepts without the None test
AcceptsNone(s, budget) == s < budget

\* line 100
Accepts(s, budget) == s # None /\ s < budget

\* lines 100-101: return ice_time, interval
Accept ==
    /\ pc = "decide"
    /\ Accepts(shortest, max_steps)
    /\ pc' = "returned"
    /\ UNCHANGED <<grid, max_steps, interval, ice_time, q, shortest,
                   pos_r, pos_c, current_steps, game_over, won>>

\* line 102, interval += 1.  Every non-seed freeze time is at least interval,
\* so from interval = max_steps on no cell entered in fewer than max_steps
\* steps is affected by the ice and every later attempt decides alike: the
\* attempts with interval >= max_steps are represented by interval = max_steps.
NextInterval(i, budget) == IF i < budget THEN i + 1 ELSE i

Reject ==
    /\ pc = "decide"
    /\ ~Accepts(shortest, max_steps)
    /\ interval' = NextInterval(interval, max_steps)
    /\ pc' = "calibrate"
    /\ UNCHANGED <<grid, max_steps, ice_time, q, shortest,
                   pos_r, pos_c, current_steps, game_over, won>>

\* FrozenAtStart with < for <=
FrozenAtStartBelowZero(ice) == ice[0][0] < 0

\* line 151
FrozenAtStart(ice) == ice[0][0] <= 0

\* lines 149-160: store the puzzle; stop if the start is frozen, else
\* initialise the player
SessionInit ==
    /\ pc = "returned"
    /\ IF FrozenAtStart(ice_time)
       THEN /\ pc' = "stopped"
            /\ UNCHANGED <<pos_r, pos_c, current_steps, game_over, won>>
       ELSE /\ pc' = "play"
            /\ pos_r' = 0
            /\ pos_c' = 0
            /\ current_steps' = 0
            /\ game_over' = FALSE
            /\ won' = FALSE
    /\ UNCHANGED <<grid, max_steps, interval, ice_time, q, shortest>>

\* ValidTarget without the wall test
ValidTargetIgnoresWalls(g, nr, nc) == InBounds(g, nr, nc)

\* line 194
ValidTarget(g, nr, nc) == InBounds(g, nr, nc) /\ g[nr][nc] # "#"

\* Fatal one step early, as if the ice were compared with the steps after next
FatalOneEarly(ice, nr, nc, new_steps) == new_steps + 1 >= ice[nr][nc]

\* Fatal with > for >=: entering a cell as it freezes is survived
FatalAfterFreeze(ice, nr, nc, new_steps) == new_steps > ice[nr][nc]

\* line 196
Fatal(ice, nr, nc, new_steps) == new_steps >= ice[nr][nc]

\* lines 186-206: one direction button pressed while neither flag is set,
\* explored while current_steps is below limit
PressWithin(d, limit) ==
    /\ pc = "play"
    /\ ~won /\ ~game_over
    /\ current_steps < limit
    /\ LET nr == pos_r + directions[d][1]
           nc == pos_c + directions[d][2]
           new_steps == current_steps + 1
       IN  IF ValidTarget(grid, nr, nc)
           THEN IF Fatal(ice_time, nr, nc, new_steps)
                THEN /\ game_over' = TRUE
                     /\ UNCHANGED <<pos_r, pos_c, current_steps, won>>
                ELSE /\ pos_r' = nr
                     /\ pos_c' = nc
                     /\ current_steps' = new_steps
                     /\ won' = (won \/ <<nr, nc>> = <<0, Cols(grid) - 1>>)
                     /\ UNCHANGED game_over
           ELSE UNCHANGED <<pos_r, pos_c, current_steps, game_over, won>>
    /\ UNCHANGED <<grid, max_steps, interval, ice_time, q, shortest, pc>>

\* a press in a session on a small grid
Press(d) == PressWithin(d, MaxPlaySteps)

\* a press in a session of the application, on the 10 x 10 grid
PressApp(d) == PressWithin(d, MaxAppSteps)

\* Restart with pos_r, pos_c and current_steps missing from the deleted keys
RestartKeepsPosition ==
    /\ pc = "play"
    /\ won \/ game_over
    /\ pc' = "generate"
    /\ grid' = base_grid
    /\ max_steps' = Unset
    /\ interval' = Unset
    /\ ice_time' = <<>>
    /\ q' = <<>>
    /\ shortest' = Unset
    /\ game_over' = FALSE
    /\ won' = FALSE
    /\ UNCHANGED <<pos_r, pos_c, current_steps>>

\* lines 170-185: Restart deletes every session key; the script reruns from
\* line 145 with an empty session
Restart ==
    /\ pc = "play"
    /\ won \/ game_over
    /\ pc' = "generate"
    /\ grid' = base_grid
    /\ max_steps' = Unset
    /\ interval' = Unset
    /\ ice_time' = <<>>
    /\ q' = <<>>
    /\ shortest' = Unset
    /\ pos_r' = Unset
    /\ pos_c' = Unset
    /\ current_steps' = Unset
    /\ game_over' = FALSE
    /\ won' = FALSE

----------------------------------------------------------------------------
(* Specifications *)

\* generate_balanced_ice(grid, max_steps) and a session on its result, for
\* the small grids and for the seedless 10 x 10 base grid
Init ==
    /\ \E in \in (SmallGrids \X SmallBudgets) \cup {<<base_grid, DefaultMaxSteps>>} :
          /\ grid = in[1]
          /\ max_steps = in[2]
    /\ interval = FirstInterval
    /\ ice_time = <<>>
    /\ q = <<>>
    /\ shortest = Unset
    /\ pc = "calibrate"
    /\ pos_r = Unset
    /\ pos_c = Unset
    /\ current_steps = Unset
    /\ game_over = FALSE
    /\ won = FALSE

Next ==
    \/ ComputeInit
    \/ Expand
    \/ FindShortest
    \/ Accept
    \/ Reject
    \/ SessionInit
    \/ \E d \in 1..4 : Press(d)

Spec == Init /\ [][Next]_vars

\* the application: an empty session, generate_grid, calibration, play, restart
InitApp ==
    /\ grid = base_grid
    /\ max_steps = Unset
    /\ interval = Unset
    /\ ice_time = <<>>
    /\ q = <<>>
    /\ shortest = Unset
    /\ pc = "generate"
    /\ pos_r = Unset
    /\ pos_c = Unset
    /\ current_steps = Unset
    /\ game_over = FALSE
    /\ won = FALSE

NextApp ==
    \/ GenerateGrid
    \/ ComputeInit
    \/ ExpandBounded
    \/ FindShortest
    \/ Accept
    \/ Reject
    \/ SessionInit
    \/ \E d \in 1..4 : PressApp(d)
    \/ Restart

SpecApp == InitApp /\ [][NextApp]_vars

\* the steps the script takes on its own, without waiting for a button
ScriptStep ==
    \/ GenerateGrid
    \/ ComputeInit
    \/ ExpandBounded
    \/ FindShortest
    \/ Accept
    \/ Reject
    \/ SessionInit

\* the application under the scheduling of the script: it is synchronous and
\* single-threaded, so a run that can take a script step takes one
SpecAppFair == SpecApp /\ WF_vars(ScriptStep)

\* find_shortest_safe_steps alone, on any small grid and any matrix
InitSearch ==
    /\ grid \in SearchGrids
    /\ ice_time \in SearchIceTimes
    /\ max_steps = Unset
    /\ interval = Unset
    /\ q = <<>>
    /\ shortest = Unset
    /\ pc = "spread"
    /\ pos_r = Unset
    /\ pos_c = Unset
    /\ current_steps = Unset
    /\ game_over = FALSE
    /\ won = FALSE

NextSearch == FindShortest

SpecSearch == InitSearch /\ [][NextSearch]_vars

\* compute_ice_times(grid, spread_interval) alone, on any small grid and for
\* spread_interval from 1 up
InitSpread ==
    /\ grid \in SmallGrids
    /\ interval \in 1..MaxInterval
    /\ max_steps = Unset
    /\ ice_time = <<>>
    /\ q = <<>>
    /\ shortest = Unset
    /\ pc = "calibrate"
    /\ pos_r = Unset
    /\ pos_c = Unset
    /\ current_steps = Unset
    /\ game_over = FALSE
    /\ won = FALSE

NextSpread ==
    \/ ComputeInit
    \/ Expand
    \/ ReturnIceTimes

\* the function runs to its end once called: its loop takes its next
\* iteration whenever there is one
SpecSpread == InitSpread /\ [][NextSpread]_vars /\ WF_vars(NextSpread)

----------------------------------------------------------------------------
(* Vocabulary of the properties *)

Cells(g) == (0..Rows(g)-1) \X (0..Cols(g)-1)

Exit(g) == <<0, Cols(g) - 1>>

Adjacent(p, n) ==
    \/ p[1] = n[1] /\ (p[2] = n[2] + 1 \/ n[2] = p[2] + 1)
    \/ p[2] = n[2] /\ (p[1] = n[1] + 1 \/ n[1] = p[1] + 1)

SeedCells(g) == {p \in Cells(g) : g[p[1]][p[2]] = "I"}

WallCells(g) == {p \in Cells(g) : g[p[1]][p[2]] = "#"}

\* the cells a walk of exactly k moves from (0,0) can end on when every cell
\* p_i entered is in bounds, not a wall and satisfies i < ice[p_i]
WalkStep(g, ice, ends, k) ==
    {n \in Cells(g) \ WallCells(g) :
        /\ k < ice[n[1]][n[2]]
        /\ \E p \in ends : Adjacent(p, n)}

\* the least k <= horizon with a walk of k moves ending on the exit, or None
RECURSIVE MinWalkFrom(_, _, _, _, _)
MinWalkFrom(g, ice, ends, k, horizon) ==
    IF Exit(g) \in ends THEN k
    ELSE IF k >= horizon \/ ends = {} THEN None
    ELSE MinWalkFrom(g, ice, WalkStep(g, ice, ends, k + 1), k + 1, horizon)

MinWalk(g, ice) == MinWalkFrom(g, ice, {<<0, 0>>}, 0, 2 * Rows(g) * Cols(g))

\* the number of moves from p to the nearest seed through non-wall cells,
\* near being the cells within k moves of a seed; None when no seed is reachable
RECURSIVE SeedDistanceFrom(_, _, _, _)
SeedDistanceFrom(g, near, p, k) ==
    IF p \in near THEN k
    ELSE IF k >= Rows(g) * Cols(g) THEN None
    ELSE SeedDistanceFrom(
            g,
            near \cup {n \in Cells(g) \ WallCells(g) : \E m \in near : Adjacent(m, n)},
            p, k + 1)

SeedDistance(g, p) == SeedDistanceFrom(g, SeedCells(g), p, 0)

\* play under the rule of the move handler: ends are the positions the player
\* can stand on after exactly k presses, none of them fatal or invalid;
\* whether some sequence of fewer than budget presses in all reaches the exit
RECURSIVE WinsWithin(_, _, _, _, _)
WinsWithin(g, ice, ends, k, budget) ==
    IF Exit(g) \in ends THEN TRUE
    ELSE IF k + 1 >= budget \/ ends = {} THEN FALSE
    ELSE LET targets == {<<p[1] + directions[d][1], p[2] + directions[d][2]>> :
                            p \in ends, d \in 1..4}
         IN  WinsWithin(g, ice,
                        {n \in targets : /\ ValidTarget(g, n[1], n[2])
                                         /\ ~Fatal(ice, n[1], n[2], k + 1)},
                        k + 1, budget)

Max(a, b) == IF a > b THEN a ELSE b

\* the least number of moves of a 4-connected path from (0,0) to the exit that
\* avoids every wall and every seed cell (the start included), or None
OpenPathLength(g) ==
    IF g[0][0] # "." THEN None ELSE MinWalk(g, InitialIceTimes(g))

----------------------------------------------------------------------------
(* Properties *)

\* C1: when generate_balanced_ice returns, find_shortest_safe_steps on the
\* returned matrix is a step count (not None) strictly below max_steps.
CalibrationPostcondition ==
    pc = "returned" =>
        LET s == find_shortest_safe_steps(grid, ice_time)
        IN  s # None /\ s >= 0 /\ s < max_steps

\* a return after at least one rejected attempt, on a grid where ice has spread
CalibrationReturnedAfterRetry ==
    /\ pc = "returned"
    /\ interval > FirstInterval
    /\ \E p \in Cells(grid) : ice_time[p[1]][p[2]] > 0 /\ ice_time[p[1]][p[2]] < Inf

\* C2: on every grid generate_grid produces, generate_balanced_ice(grid, 15)
\* eventually returns.
CalibrationTerminates == (pc = "calibrate") ~> (pc = "returned")

\* C3: a session started on an accepted puzzle can be won in fewer than
\* max_steps presses, none of them fatal.
AcceptedPuzzleWinnable ==
    (pc = "play" /\ current_steps = 0) =>
        WinsWithin(grid, ice_time, {<<pos_r, pos_c>>}, 0, max_steps)

\* a session at its first press on a puzzle whose exit does freeze
SessionStartedOnIcyPuzzle ==
    /\ pc = "play"
    /\ current_steps = 0
    /\ ice_time[0][Cols(grid) - 1] < Inf

\* C4: find_shortest_safe_steps returns the least length of a walk from (0,0)
\* to the exit through in-bounds non-wall cells entering p_i with
\* i < ice_time[p_i], and None when there is none.
SearchIsMinimalWalk ==
    pc = "decide" => shortest = MinWalk(grid, ice_time)

\* a search that had to take the 4-move detour because ice, not a wall, closes
\* the direct route
SearchTookDetour ==
    /\ pc = "decide"
    /\ shortest = 4
    /\ grid[0][1] = "."
    /\ ice_time[0][1] <= 1

\* C5 as stated: on the seedless base grid every freeze time stays infinite
\* and find_shortest_safe_steps returns 9.
SeedlessBaseGridNineMoves ==
    (pc = "decide" /\ grid = base_grid) =>
        /\ \A p \in Cells(grid) : ice_time[p[1]][p[2]] = Inf
        /\ shortest = 9

\* C5 amended: on the seedless base grid every freeze time stays infinite and
\* find_shortest_safe_steps returns 11 (the wall at (0,8) costs two moves).
SeedlessBaseGridElevenMoves ==
    (pc = "decide" /\ grid = base_grid) =>
        /\ \A p \in Cells(grid) : ice_time[p[1]][p[2]] = Inf
        /\ shortest = 11

\* the search has run on the seedless base grid
SeedlessBaseGridSearched == pc = "decide" /\ grid = base_grid

\* the outcome of a press from the current position in direction d
PressOutcome(d) ==
    LET nr == pos_r + directions[d][1]
        nc == pos_c + directions[d][2]
    IN  /\ InBounds(grid, nr, nc)
        /\ grid[nr][nc] # "#"
        /\ IF current_steps + 1 >= ice_time[nr][nc]
           THEN /\ game_over'
                /\ pos_r' = pos_r /\ pos_c' = pos_c
                /\ current_steps' = current_steps
                /\ won' = won
           ELSE /\ pos_r' = nr /\ pos_c' = nc
                /\ current_steps' = current_steps + 1
                /\ game_over' = game_over

\* C6: a press on an in-bounds non-wall target is fatal exactly when
\* current_steps + 1 >= ice_time[target]: then game_over is set and the
\* player and the step count stay; otherwise the player moves there and the
\* step count grows by exactly 1.
MoveRule ==
    [][(pc = "play" /\ pc' = "play") => \E d \in 1..4 : PressOutcome(d)]_vars

\* the player froze next to the exit, having pressed towards a frozen exit
FrozeBesideExit ==
    /\ pc = "play"
    /\ game_over /\ ~won
    /\ Adjacent(<<pos_r, pos_c>>, Exit(grid))
    /\ current_steps + 1 >= ice_time[0][Cols(grid) - 1]
    /\ \A p \in Cells(grid) \ {Exit(grid)} :
          Adjacent(<<pos_r, pos_c>>, p) =>
              (p \in WallCells(grid) \/ current_steps + 1 < ice_time[p[1]][p[2]])

\* C7: in the matrix compute_ice_times returns, a cell has freeze time 0 iff
\* it is a seed; every other non-wall cell has an integer freeze time >= 1 or
\* infinity; wall cells stay at infinity.
FreezeTimeValidity ==
    pc = "decide" =>
        \A p \in Cells(grid) :
            LET kind == grid[p[1]][p[2]]
                f == ice_time[p[1]][p[2]]
            IN  /\ (f = 0) <=> (kind = "I")
                /\ kind = "." => (f \in Nat /\ f >= 1)
                /\ kind = "#" => f = Inf

\* a returned matrix with a wall beside a seed, frozen cells and a cell the
\* spread never reached
SpreadAroundWall ==
    /\ pc = "decide"
    /\ \E w \in WallCells(grid), p \in SeedCells(grid) : Adjacent(w, p)
    /\ \E p \in Cells(grid) : ice_time[p[1]][p[2]] \in 1..(Inf - 1)
    /\ \E p \in Cells(grid) \ WallCells(grid) : ice_time[p[1]][p[2]] = Inf

\* C8: in the matrix compute_ice_times returns, a non-seed cell with a finite
\* freeze time freezes no earlier than spread_interval times its distance
\* through non-wall cells to the nearest seed.
FreezeTimeLowerBound ==
    pc = "decide" =>
        \A p \in Cells(grid) \ SeedCells(grid) :
            ice_time[p[1]][p[2]] < Inf =>
                /\ SeedDistance(grid, p) # None
                /\ ice_time[p[1]][p[2]] >= interval * SeedDistance(grid, p)

\* a returned matrix in which a cell froze strictly later than the bound and
\* a cell two moves from the nearest seed froze exactly on it
SpreadLaterThanBound ==
    /\ pc = "decide"
    /\ SeedCells(grid) # {}
    /\ \E p \in Cells(grid) \ SeedCells(grid) :
          /\ ice_time[p[1]][p[2]] < Inf
          /\ ice_time[p[1]][p[2]] > interval * SeedDistance(grid, p)
    /\ \E p \in Cells(grid) :
          /\ SeedDistance(grid, p) = 2
          /\ ice_time[p[1]][p[2]] = interval * 2

\* C9: in every generated grid neither (0,0) nor the exit is a seed or a
\* wall; in every accepted puzzle ice_time[0][0] > 0 and the session never
\* stops with "Frozen at start".
StartAndExitStayOpen ==
    /\ pc # "generate" =>
          /\ grid[0][0] \notin {"I", "#"}
          /\ grid[0][Cols(grid) - 1] \notin {"I", "#"}
    /\ pc \in {"returned", "play", "stopped"} => ice_time[0][0] > 0
    /\ pc # "stopped"

\* a session started on an accepted puzzle of a generated grid
GeneratedPuzzleStarted ==
    /\ pc = "play"
    /\ current_steps = 0
    /\ SeedCells(grid) # {}

\* C10: a generated grid has between 3 and 5 seeds, all on cells open in the
\* base layout in columns C//2..C-1, and the three walls unchanged.
SeedPlacement ==
    pc # "generate" =>
        /\ Cardinality(SeedCells(grid)) \in 3..5
        /\ \A p \in SeedCells(grid) :
              /\ base_grid[p[1]][p[2]] = "."
              /\ p[2] >= Cols(grid) \div 2 /\ p[2] <= Cols(grid) - 1
        /\ WallCells(grid) = {<<0, 8>>, <<4, 0>>, <<9, 5>>}
        /\ Rows(grid) = 10 /\ Cols(grid) = 10

\* a generated grid with five seeds, one of them in column C//2
FiveSeedsPlaced ==
    /\ pc = "calibrate"
    /\ Cardinality(SeedCells(grid)) = 5
    /\ \E p \in SeedCells(grid) : p[2] = Cols(grid) \div 2

SeedBesideWalledExitFrozeAtTwo ==
    /\ pc = "decide"
    /\ interval = 2
    /\ grid[1][Cols(grid) - 1] = "I"
    /\ grid[0][Cols(grid) - 2] = "#"
    /\ ice_time[0][Cols(grid) - 1] = 2

\* C12: compute_ice_times terminates on every grid, for every spread_interval
\* >= 1 and every resolution of the random directions: once called, the queue
\* becomes empty and the function returns.
ComputeIceTimesTerminates == (pc \in {"calibrate", "spread"}) ~> (pc = "computed")

\* compute_ice_times has returned for spread_interval = 1 a matrix in which the
\* ice went round a skipped direction (a cell froze later than its distance)
SpreadReturnedAtIntervalOne ==
    /\ pc = "computed"
    /\ q = <<>>
    /\ interval = 1
    /\ \E p \in Cells(grid) \ SeedCells(grid) :
          /\ ice_time[p[1]][p[2]] < Inf
          /\ ice_time[p[1]][p[2]] > SeedDistance(grid, p)

\* C13: when a path of L < max_steps moves from the start to the exit avoids
\* every wall and every seed, generate_balanced_ice never tries an interval
\* above max(2, L+1) (so never above max_steps, in at most max_steps - 1
\* iterations, the k-th of which tries interval k + 1): the attempt at
\* max(2, L+1), if it comes to it, is accepted, under every shuffle outcome.
CalibrationIntervalBound ==
    LET L == OpenPathLength(grid)
    IN  (/\ pc \in {"calibrate", "spread", "decide", "returned"}
         /\ L # None
         /\ L < max_steps) =>
            /\ interval <= Max(FirstInterval, L + 1)
            /\ interval <= max_steps
            /\ interval - FirstInterval + 1 <= max_steps - 1
            /\ (pc = "decide" /\ interval = Max(FirstInterval, L + 1)) =>
                   (shortest # None /\ shortest < max_steps)

\* a return exactly at the bound L + 1 > 2 on a grid with such a path, after
\* the attempts at the lower intervals were rejected
CalibrationReturnedAtBound ==
    /\ pc = "returned"
    /\ OpenPathLength(grid) # None
    /\ OpenPathLength(grid) < max_steps
    /\ interval > FirstInterval
    /\ interval = OpenPathLength(grid) + 1

\* one step of generate_balanced_ice as the claim describes it
CalibrationStep ==
    /\ pc = "calibrate" =>
          /\ pc' = "spread"
          /\ interval' = interval
          /\ ice_time' = [r \in 0..Rows(grid)-1 |-> [c \in 0..Cols(grid)-1 |->
                              IF grid[r][c] = "I" THEN 0 ELSE Inf]]
    /\ pc = "spread" =>
          /\ pc' \in {"spread", "decide"}
          /\ interval' = interval
    /\ pc = "decide" =>
          IF shortest = None \/ shortest >= max_steps
          THEN /\ pc' = "calibrate"
               /\ interval < max_steps => interval' = interval + 1
          ELSE /\ pc' = "returned"
               /\ interval' = interval
               /\ ice_time' = ice_time
    /\ pc \in {"returned", "play", "stopped"} =>
          /\ pc' \in {"play", "stopped"}
          /\ interval' = interval
          /\ ice_time' = ice_time

\* C14: generate_balanced_ice starts at interval 2; every attempt starts from
\* a fresh matrix (0 on the seeds, infinity elsewhere) whatever the previous
\* attempt left; the interval changes only when an attempt is rejected
\* (shortest is None or >= max_steps), then by exactly 1, and an attempt
\* that is not rejected returns the current interval and matrix: so the
\* intervals are tried in the order 2, 3, 4, ..., once each, and the returned
\* interval is 2 plus the number of rejected attempts.  (Attempts at
\* intervals >= max_steps are represented by interval = max_steps.)
CalibrationTriesIntervalsInOrder ==
    /\ (pc = "calibrate" /\ interval = FirstInterval)
    /\ [][CalibrationStep]_vars

\* a return at interval 4, after the attempts at 2 and at 3 were rejected
CalibrationReturnedAtThirdAttempt ==
    /\ pc = "returned"
    /\ interval = FirstInterval + 2
    /\ \E p \in Cells(grid) : ice_time[p[1]][p[2]] = interval

\* C15: on the seedless 10 x 10 base grid with the default budget of 15,
\* generate_balanced_ice accepts its first attempt: the interval is never
\* raised above 2, the first search result is accepted, and what is returned
\* is interval 2 with an all-infinity matrix.
SeedlessBaseGridAcceptedAtFirst ==
    (grid = base_grid /\ max_steps = 15) =>
        /\ interval = 2
        /\ pc = "decide" => (shortest # None /\ shortest < 15)
        /\ pc = "returned" =>
              \A p \in Cells(grid) : ice_time[p[1]][p[2]] = Inf

\* generate_balanced_ice has returned on the seedless base grid
SeedlessBaseGridReturned ==
    /\ pc = "returned"
    /\ grid = base_grid
    /\ max_steps = 15
    /\ interval = 2

\* the cell next to p in direction number d
Neighbour(p, d) == <<p[1] + directions[d][1], p[2] + directions[d][2]>>

\* the effect the claim gives to the expansion of the front entry when the
\* set of attempted directions is D: exactly the attempted neighbours that
\* are in bounds, not walls and of freeze time > time + interval are set to
\* time + interval and queued behind the rest of the queue
ExpansionOutcome(D) ==
    LET e   == Head(q)
        due == e[3] + interval
        upd == {n \in {Neighbour(e, d) : d \in D} :
                   /\ n[1] >= 0 /\ n[1] < Rows(grid)
                   /\ n[2] >= 0 /\ n[2] < Cols(grid)
                   /\ grid[n[1]][n[2]] # "#"
                   /\ ice_time[n[1]][n[2]] > due}
    IN  /\ \A p \in Cells(grid) :
              ice_time'[p[1]][p[2]] = IF p \in upd THEN due ELSE ice_time[p[1]][p[2]]
        /\ Len(q') = Len(q) - 1 + Cardinality(upd)
        /\ \A i \in 1..(Len(q) - 1) : q'[i] = q[i + 1]
        /\ {q'[i] : i \in Len(q)..Len(q')} = {<<n[1], n[2], due>> : n \in upd}

\* C16: every iteration of the loop of compute_ice_times attempts a set of
\* exactly 3 of the 4 directions, and updates and queues an attempted
\* neighbour iff it is in bounds, not a wall and its freeze time is strictly
\* greater than time + spread_interval; nothing else changes.
ExpansionTriesThreeDirections ==
    [][(pc = "spread" /\ q # <<>>) =>
          \E D \in {S \in SUBSET (1..4) : Cardinality(S) = 3} : ExpansionOutcome(D)]_vars

\* a returned matrix in which the seed in the centre of an open grid froze
\* three of its neighbours at the interval and skipped the fourth
SeedSkippedOneNeighbour ==
    /\ pc = "computed"
    /\ grid[1][1] = "I"
    /\ WallCells(grid) = {}
    /\ Cardinality({d \in 1..4 :
            ice_time[Neighbour(<<1, 1>>, d)[1]][Neighbour(<<1, 1>>, d)[2]] = interval}) = 3
    /\ \E d \in 1..4 :
            ice_time[Neighbour(<<1, 1>>, d)[1]][Neighbour(<<1, 1>>, d)[2]] > interval

\* C17: in every session state with game_over False the player stands on an
\* in-bounds non-wall cell that has not frozen yet:
\* current_steps < ice_time[pos_r][pos_c].
PlayerNotFrozen ==
    (pc = "play" /\ ~game_over) =>
        /\ pos_r >= 0 /\ pos_r < Rows(grid)
        /\ pos_c >= 0 /\ pos_c < Cols(grid)
        /\ grid[pos_r][pos_c] # "#"
        /\ current_steps >= 0
        /\ current_steps < ice_time[pos_r][pos_c]

\* the player has walked away and is back on the start cell, which does
\* freeze later in this puzzle
PlayerBackOnStart ==
    /\ pc = "play"
    /\ ~game_over
    /\ <<pos_r, pos_c>> = <<0, 0>>
    /\ current_steps >= 2
    /\ ice_time[0][0] < Inf

\* one step of the application as the claim describes the flags and Restart
SessionStep ==
    /\ ~(won' /\ game_over')
    /\ (~won /\ won') =>
          /\ pc = "play" /\ pc' = "play"
          /\ ~game_over /\ ~game_over'
          /\ <<pos_r', pos_c'>> = <<0, Cols(grid) - 1>>
          /\ Adjacent(<<pos_r, pos_c>>, <<pos_r', pos_c'>>)
          /\ current_steps' = current_steps + 1
          /\ current_steps' < ice_time[0][Cols(grid) - 1]
    /\ (pc = "play" /\ (won \/ game_over)) =>
          /\ pc' = "generate"
          /\ ice_time' = <<>>
          /\ interval' = Unset
          /\ pos_r' = Unset /\ pos_c' = Unset /\ current_steps' = Unset
          /\ ~won' /\ ~game_over'
    /\ pc = "generate" =>
          /\ pc' = "calibrate"
          /\ SeedCells(grid') # {}
          /\ ice_time' = <<>>
    /\ (pc # "play" /\ pc' = "play") =>
          /\ pc = "returned"
          /\ ice_time' = ice_time /\ ice_time # <<>>
          /\ pos_r' = 0 /\ pos_c' = 0 /\ current_steps' = 0
          /\ ~won' /\ ~game_over'

\* C18: won and game_over are never both True; won is set only by a safe
\* move onto the exit; once a flag is set the only step is Restart (position,
\* steps and flags stay until then), which deletes the session keys, after
\* which a grid and a matrix are generated anew and the session starts at
\* (0,0) with 0 steps and both flags False.
FlagsExclusiveUntilRestart ==
    /\ ~(won /\ game_over)
    /\ [][SessionStep]_vars

\* a session won by the eleventh move, waiting for Restart
WonAwaitingRestart ==
    /\ pc = "play"
    /\ won /\ ~game_over
    /\ <<pos_r, pos_c>> = <<0, Cols(grid) - 1>>
    /\ current_steps = 11
    /\ ice_time[0][Cols(grid) - 1] < Inf

\* direction number d points from the player out of the grid or at a wall
InvalidDirection(d) ==
    LET n == Neighbour(<<pos_r, pos_c>>, d)
    IN  \/ n[1] < 0 \/ n[1] >= Rows(grid)
        \/ n[2] < 0 \/ n[2] >= Cols(grid)
        \/ grid[n[1]][n[2]] = "#"

\* while the direction buttons are shown, a press in an invalid direction is
\* handled and changes nothing
InvalidPressChangesNothing ==
    (pc = "play" /\ ~won /\ ~game_over /\ current_steps < MaxPlaySteps) =>
        \A d \in 1..4 :
            InvalidDirection(d) =>
                /\ ENABLED Press(d)
                /\ ~ENABLED <<Press(d)>>_vars

\* current_steps is 0 when the session starts and changes only by a safe
\* move to an adjacent valid cell, by exactly 1
StepCountStep ==
    /\ (pc # "play" /\ pc' = "play") => current_steps' = 0
    /\ (pc = "play" /\ pc' = "play") =>
          \/ /\ current_steps' = current_steps + 1
             /\ \E d \in 1..4 :
                   /\ ~InvalidDirection(d)
                   /\ <<pos_r', pos_c'>> = Neighbour(<<pos_r, pos_c>>, d)
             /\ current_steps' < ice_time[pos_r'][pos_c']
             /\ game_over' = game_over
          \/ /\ current_steps' = current_steps
             /\ pos_r' = pos_r /\ pos_c' = pos_c
             /\ won' = won

\* C19: a press whose target is out of bounds or a wall leaves pos_r, pos_c,
\* current_steps, game_over and won unchanged; and current_steps counts the
\* safe valid moves of the session: it starts at 0 and every change of it is
\* +1 together with a safe move to an adjacent valid cell.
InvalidPressFrame ==
    [][InvalidPressChangesNothing /\ StepCountStep]_vars

\* the player has moved and now stands between the edge of the grid and a
\* wall, with the buttons still shown
PlayerBetweenEdgeAndWall ==
    /\ pc = "play"
    /\ ~won /\ ~game_over
    /\ current_steps \in 1..(MaxPlaySteps - 1)
    /\ \E d \in 1..4 :
          LET n == Neighbour(<<pos_r, pos_c>>, d)
          IN  InBounds(grid, n[1], n[2]) /\ grid[n[1]][n[2]] = "#"
    /\ \E d \in 1..4 :
          LET n == Neighbour(<<pos_r, pos_c>>, d)
          IN  ~InBounds(grid, n[1], n[2])

\* the cells whose freeze time differs between this state and the next
Rewritten == {p \in Cells(grid) : ice_time'[p[1]][p[2]] # ice_time[p[1]][p[2]]}

\* in an iteration of the loop a freeze time is written only over infinity,
\* and the entries queued are one per cell written, with the time written
WriteOnceStep ==
    (pc = "spread" /\ q # <<>>) =>
        /\ \A p \in Rewritten : ice_time[p[1]][p[2]] = Inf
        /\ Len(q') = Len(q) - 1 + Cardinality(Rewritten)
        /\ {q'[i] : i \in Len(q)..Len(q')} =
              {<<p[1], p[2], ice_time'[p[1]][p[2]]>> : p \in Rewritten}

\* while the loop runs the queue is sorted by time and holds no cell twice
QueueSorted ==
    pc = "spread" =>
        /\ \A i \in 1..(Len(q) - 1) : q[i][3] <= q[i + 1][3]
        /\ \A i, j \in 1..Len(q) :
              (q[i][1] = q[j][1] /\ q[i][2] = q[j][2]) => i = j

\* in the returned matrix a finite freeze time f of a non-seed cell is a
\* positive multiple of the interval and an adjacent non-wall cell has f - interval
ReturnedTimesChained ==
    pc = "computed" =>
        \A p \in Cells(grid) \ SeedCells(grid) :
            LET f == ice_time[p[1]][p[2]]
            IN  f < Inf =>
                  /\ \E k \in 1..(Rows(grid) * Cols(grid)) : f = k * interval
                  /\ \E n \in Cells(grid) \ WallCells(grid) :
                        /\ Adjacent(n, p)
                        /\ ice_time[n[1]][n[2]] = f - interval

\* C20: during compute_ice_times the queued times are non-decreasing from
\* front to back, each cell's freeze time is written at most once (only over
\* infinity) and each cell is queued at most once (one entry per write, the
\* seeds once at the start); at return every finite freeze time f of a
\* non-seed cell is k * spread_interval, k >= 1, and an adjacent non-wall
\* cell has freeze time f - spread_interval.
SpreadDiscipline ==
    [][WriteOnceStep /\ QueueSorted' /\ ReturnedTimesChained']_vars

\* the loop under way with entries of two different times queued and a cell
\* already frozen two intervals after the seeds
QueueHoldsTwoTimes ==
    /\ pc = "spread"
    /\ Len(q) >= 3
    /\ q[1][3] < q[Len(q)][3]
    /\ \E p \in Cells(grid) : ice_time[p[1]][p[2]] = 2 * interval

====
